---- MODULE Spec2Model ----
(***************************************************************************)
(* The persistent data model of classroom/models.py as a state machine.    *)
(* The state is the content of the tables; every action is one ORM         *)
(* operation (a save, a delete with its cascades, a query) executed as one *)
(* transaction.  Fields that no operation reads (scores, dates, files,     *)
(* notes) are left out of the rows.                                        *)
(***************************************************************************)
EXTENDS Integers, Sequences, FiniteSets, TLC

VARIABLES
    quizzes,          \* pks of the Quiz rows
    questions,        \* Question rows              [pk, quiz, text]
    answers,          \* Answer rows                [pk, question, is_correct]
    studentAnswers,   \* StudentAnswer rows         [pk, student, answer]
    takenQuizzes,     \* TakenQuiz rows             [pk, student, quiz]
    calls,            \* get_unanswered_questions calls since the last write, newest first
    assignments,      \* pks of the Assignment rows
    submissions,      \* AssignmentSubmission rows  [pk, assignment, student]
    channels,         \* Channel rows               [pk, name, slug]
    memberships,      \* ChannelMember rows         [pk, channel, user]
    schedules,        \* MonthlySchedule rows       [pk, month, year, user]
    removed,          \* rows the last Quiz or Assignment delete removed, as [table, pk]
    lastSave,         \* the last Channel.save: its instance and its outcome
    lastJoin,         \* the last ChannelMember insert and its outcome
    lastSchedule      \* the last MonthlySchedule save and its outcome

quizTables == <<quizzes, questions, answers, studentAnswers, takenQuizzes>>
quizVars == <<quizTables, calls>>
assignVars == <<assignments, submissions>>
channelVars == <<channels, memberships, lastSave, lastJoin>>
scheduleVars == <<schedules, lastSchedule>>

vars == <<quizVars, assignVars, channelVars, scheduleVars, removed>>

----------------------------------------------------------------------------
(* Bounds and populations *)

\* Rows the Question, Answer, StudentAnswer and TakenQuiz tables hold together.
MaxRows == 3

\* The null of a nullable foreign key; primary keys start at 1.
NULL == 0

Pks == 1..MaxRows
QuizPks == {1, 2}
Students == {"s1", "s2"}
Users == {"u1", "u2"}

\* Question texts; the characters are listed in collation order.
Collation == <<"a", "b">>
Texts == {<<"a">>, <<"a", "b">>, <<"b">>}

\* Outcomes of a write
Saved == "saved"
IntegrityError == "IntegrityError"

----------------------------------------------------------------------------
(* order_by('text') *)

Rank(c) == CHOOSE i \in 1..Len(Collation) : Collation[i] = c

Min(a, b) == IF a <= b THEN a ELSE b

\* Lexicographic comparison of two texts, character by character.
TextLess(s, t) ==
    LET n == Min(Len(s), Len(t))
        diff == {i \in 1..n : s[i] # t[i]}
    IN  IF diff = {}
        THEN Len(s) < Len(t)
        ELSE LET i == CHOOSE j \in diff : \A k \in diff : j <= k
             IN  Rank(s[i]) < Rank(t[i])

\* A wrong order: by primary key, as the rows were inserted.
FirstByPk(S) == {r \in S : \A o \in S : r.pk <= o.pk}

\* The rows of S that may come first in ascending text order.
FirstByText(S) == {r \in S : \A o \in S : ~TextLess(o.text, r.text)}

\* Every sequence ORDER BY text may return for the rows S: ascending by text,
\* rows of equal text in an order the database chooses.
RECURSIVE OrderByText(_)
OrderByText(S) ==
    IF S = {} THEN {<<>>}
    ELSE UNION {{<<r>> \o rest : rest \in OrderByText(S \ {r})} : r \in FirstByText(S)}

----------------------------------------------------------------------------
(* Student.get_unanswered_questions *)

\* A wrong filter: the answers of every student, not only this one's.
AnsweredQuestionsAnyStudent(student, quiz) ==
    {a.question : a \in {a \in answers :
        /\ \E sa \in studentAnswers : sa.answer = a.pk
        /\ \E q \in questions : q.pk = a.question /\ q.quiz = quiz}}

\* self.quiz_answers.filter(answer__question__quiz=quiz)
\*     .values_list('answer__question__pk', flat=True)
AnsweredQuestions(student, quiz) ==
    {a.question : a \in {a \in answers :
        /\ \E sa \in studentAnswers : sa.student = student /\ sa.answer = a.pk
        /\ \E q \in questions : q.pk = a.question /\ q.quiz = quiz}}

\* quiz.questions.exclude(pk__in=answered_questions)
Unanswered(student, quiz) ==
    {q \in questions : q.quiz = quiz /\ q.pk \notin AnsweredQuestions(student, quiz)}

\* The sequences the query may evaluate to.
GetUnansweredQuestionsResults(student, quiz) == OrderByText(Unanswered(student, quiz))

----------------------------------------------------------------------------------------------------------------------------------------
(* Writes to the quiz tables *)

RowCount == Cardinality(questions) + Cardinality(answers)
            + Cardinality(studentAnswers) + Cardinality(takenQuizzes)

FreePks(table, pks) == {p \in pks : \A r \in table : r.pk # p}

\* The key the database gives a row inserted without one: a key not in use.
NewPk(table, pks) == CHOOSE p \in FreePks(table, pks) : \A o \in FreePks(table, pks) : p <= o

Tag(table, rows) == {[table |-> table, pk |-> r.pk] : r \in rows}

\* The rows that go with their parent, on_delete=CASCADE.
QuestionsOfQuiz(quiz) == {q \in questions : q.quiz = quiz}
AnswersOfQuestions(qs) == {a \in answers : a.question \in {q.pk : q \in qs}}
StudentAnswersOfAnswers(as) == {sa \in studentAnswers : sa.answer \in {a.pk : a \in as}}
\* A wrong cascade: the attempts at a deleted quiz are kept.
TakenQuizzesKept(quiz) == {}
TakenQuizzesOfQuiz(quiz) == {t \in takenQuizzes : t.quiz = quiz}

\* What a write to the quiz tables leaves alone, and the calls it outdates.
QuizWrite ==
    /\ calls' = <<>>
    /\ UNCHANGED <<assignVars, channelVars, scheduleVars>>

CreateQuiz(quiz) ==
    /\ quiz \notin quizzes
    /\ quizzes' = quizzes \cup {quiz}
    /\ removed' = {}
    /\ QuizWrite
    /\ UNCHANGED <<questions, answers, studentAnswers, takenQuizzes>>

DeleteQuiz(quiz) ==
    /\ quiz \in quizzes
    /\ LET qs == QuestionsOfQuiz(quiz)
           as == AnswersOfQuestions(qs)
           sas == StudentAnswersOfAnswers(as)
           ts == TakenQuizzesOfQuiz(quiz)
       IN  /\ quizzes' = quizzes \ {quiz}
           /\ questions' = questions \ qs
           /\ answers' = answers \ as
           /\ studentAnswers' = studentAnswers \ sas
           /\ takenQuizzes' = takenQuizzes \ ts
           /\ removed' = {[table |-> "Quiz", pk |-> quiz]} \cup Tag("Question", qs)
                           \cup Tag("Answer", as) \cup Tag("StudentAnswer", sas)
                           \cup Tag("TakenQuiz", ts)
    /\ QuizWrite

CreateQuestion(quiz, text) ==
    /\ RowCount < MaxRows
    /\ quiz \in quizzes
    /\ questions' = questions \cup {[pk |-> NewPk(questions, Pks), quiz |-> quiz, text |-> text]}
    /\ removed' = {}
    /\ QuizWrite
    /\ UNCHANGED <<quizzes, answers, studentAnswers, takenQuizzes>>

DeleteQuestion(pk) ==
    /\ \E q \in questions : q.pk = pk
    /\ LET qs == {q \in questions : q.pk = pk}
           as == AnswersOfQuestions(qs)
       IN  /\ questions' = questions \ qs
           /\ answers' = answers \ as
           /\ studentAnswers' = studentAnswers \ StudentAnswersOfAnswers(as)
    /\ removed' = {}
    /\ QuizWrite
    /\ UNCHANGED <<quizzes, takenQuizzes>>

CreateAnswer(question, is_correct) ==
    /\ RowCount < MaxRows
    /\ \E q \in questions : q.pk = question
    /\ answers' = answers \cup {[pk |-> NewPk(answers, Pks), question |-> question,
                                 is_correct |-> is_correct]}
    /\ removed' = {}
    /\ QuizWrite
    /\ UNCHANGED <<quizzes, questions, studentAnswers, takenQuizzes>>

DeleteAnswer(pk) ==
    /\ \E a \in answers : a.pk = pk
    /\ LET as == {a \in answers : a.pk = pk}
       IN  /\ answers' = answers \ as
           /\ studentAnswers' = studentAnswers \ StudentAnswersOfAnswers(as)
    /\ removed' = {}
    /\ QuizWrite
    /\ UNCHANGED <<quizzes, questions, takenQuizzes>>

CreateStudentAnswer(student, answer) ==
    /\ RowCount < MaxRows
    /\ answer = NULL \/ \E a \in answers : a.pk = answer
    /\ studentAnswers' = studentAnswers \cup {[pk |-> NewPk(studentAnswers, Pks),
                                               student |-> student, answer |-> answer]}
    /\ removed' = {}
    /\ QuizWrite
    /\ UNCHANGED <<quizzes, questions, answers, takenQuizzes>>

DeleteStudentAnswer(pk) ==
    /\ \E sa \in studentAnswers : sa.pk = pk
    /\ studentAnswers' = {sa \in studentAnswers : sa.pk # pk}
    /\ removed' = {}
    /\ QuizWrite
    /\ UNCHANGED <<quizzes, questions, answers, takenQuizzes>>

CreateTakenQuiz(student, quiz) ==
    /\ RowCount < MaxRows
    /\ quiz \in quizzes
    /\ takenQuizzes' = takenQuizzes \cup {[pk |-> NewPk(takenQuizzes, Pks),
                                           student |-> student, quiz |-> quiz]}
    /\ removed' = {}
    /\ QuizWrite
    /\ UNCHANGED <<quizzes, questions, answers, studentAnswers>>

DeleteTakenQuiz(pk) ==
    /\ \E t \in takenQuizzes : t.pk = pk
    /\ takenQuizzes' = {t \in takenQuizzes : t.pk # pk}
    /\ removed' = {}
    /\ QuizWrite
    /\ UNCHANGED <<quizzes, questions, answers, studentAnswers>>

\* One call of student.get_unanswered_questions(quiz), its queryset evaluated: a read.
GetUnansweredQuestions(student, quiz) ==
    /\ quiz \in quizzes
    /\ \E rows \in GetUnansweredQuestionsResults(student, quiz) :
         LET call == [student |-> student, quiz |-> quiz, rows |-> rows]
         IN  calls' = IF calls # <<>> /\ calls[1].student = student /\ calls[1].quiz = quiz
                      THEN <<call, calls[1]>>
                      ELSE <<call>>
    /\ UNCHANGED <<quizTables, assignVars, channelVars, scheduleVars, removed>>

----------------------------------------------------------------------------
(* Assignment and AssignmentSubmission *)

MaxSubmissions == 3

AssignmentPks == {1, 2}
SubmissionPks == 1..MaxSubmissions

\* A wrong cascade: the submissions of a deleted assignment are kept.
SubmissionsKept(assignment) == {}

\* assignment = ForeignKey(Assignment, on_delete=models.CASCADE, null=True):
\* the submissions that go with a deleted assignment.
SubmissionsOfAssignment(assignment) == {s \in submissions : s.assignment = assignment}

AssignWrite == UNCHANGED <<quizVars, channelVars, scheduleVars>>

CreateAssignment(assignment) ==
    /\ assignment \notin assignments
    /\ assignments' = assignments \cup {assignment}
    /\ removed' = {}
    /\ AssignWrite
    /\ UNCHANGED submissions

DeleteAssignment(assignment) ==
    /\ assignment \in assignments
    /\ LET ss == SubmissionsOfAssignment(assignment)
       IN  /\ assignments' = assignments \ {assignment}
           /\ submissions' = submissions \ ss
           /\ removed' = {[table |-> "Assignment", pk |-> assignment]}
                           \cup Tag("AssignmentSubmission", ss)
    /\ AssignWrite

\* A submission is created with an assignment or with none (null=True).
CreateSubmission(student, assignment) ==
    /\ FreePks(submissions, SubmissionPks) # {}
    /\ assignment = NULL \/ assignment \in assignments
    /\ submissions' = submissions \cup {[pk |-> NewPk(submissions, SubmissionPks),
                                         assignment |-> assignment, student |-> student]}
    /\ removed' = {}
    /\ AssignWrite
    /\ UNCHANGED assignments

DeleteSubmission(pk) ==
    /\ \E s \in submissions : s.pk = pk
    /\ submissions' = {s \in submissions : s.pk # pk}
    /\ removed' = {}
    /\ AssignWrite
    /\ UNCHANGED assignments

----------------------------------------------------------------------------
(* django.utils.text.slugify(value), allow_unicode=False, on ASCII names:  *)
(*   value = re.sub(r'[^\w\s-]', '', value.lower())                        *)
(*   return re.sub(r'[-\s]+', '-', value).strip('-_')                      *)
(* A name is a sequence of one-character strings.                          *)

UpperCase == <<"H", "M">>
LowerCase == <<"h", "m">>
Letters == {"H", "M", "a", "e", "h", "l", "m", "p", "t"}

Lower(c) ==
    IF \E i \in 1..Len(UpperCase) : UpperCase[i] = c
    THEN LowerCase[CHOOSE i \in 1..Len(UpperCase) : UpperCase[i] = c]
    ELSE c

IsWord(c) == c \in Letters \/ c = "_"
IsSpace(c) == c = " "
IsSeparator(c) == IsSpace(c) \/ c = "-"

\* re.sub(r'[-\s]+', '-', s): every run of hyphens and spaces becomes one hyphen.
Collapse(s) ==
    LET marked == [i \in 1..Len(s) |->
                     IF ~IsSeparator(s[i]) THEN s[i]
                     ELSE IF i > 1 /\ IsSeparator(s[i - 1]) THEN "" ELSE "-"]
    IN  SelectSeq(marked, LAMBDA c : c # "")

RECURSIVE LStrip(_)
LStrip(s) == IF s # <<>> /\ Head(s) \in {"-", "_"} THEN LStrip(Tail(s)) ELSE s

RECURSIVE RStrip(_)
RStrip(s) ==
    IF s # <<>> /\ s[Len(s)] \in {"-", "_"} THEN RStrip(SubSeq(s, 1, Len(s) - 1)) ELSE s

\* A wrong slugify: punctuation is not removed.
SlugifyKeepPunctuation(name) ==
    LET lowered == [i \in 1..Len(name) |-> Lower(name[i])]
    IN  RStrip(LStrip(Collapse(lowered)))

Slugify(name) ==
    LET lowered == [i \in 1..Len(name) |-> Lower(name[i])]
        kept == SelectSeq(lowered, LAMBDA c : IsWord(c) \/ IsSpace(c) \/ c = "-")
    IN  RStrip(LStrip(Collapse(kept)))

----------------------------------------------------------------------------
(* Channel and ChannelMember *)

MaxNameLen == 1
MaxMembers == 3

ChannelPks == {1, 2}
MemberPks == 1..MaxMembers

NameAlphabet == {"H", "h", "!", "-"}

RECURSIVE SeqsUpTo(_, _)
SeqsUpTo(chars, n) ==
    IF n = 0 THEN {<<>>}
    ELSE LET shorter == SeqsUpTo(chars, n - 1)
         IN  shorter \cup {Append(s, c) : s \in shorter, c \in chars}

MathHelpBang == <<"M", "a", "t", "h", " ", "H", "e", "l", "p", "!">>
MathHelpQuery == <<"M", "a", "t", "h", " ", "H", "e", "l", "p", "?">>
ExampleNames == {MathHelpBang, MathHelpQuery, <<"_", "H", " ", "-", "h", "!", "-">>}

\* Channel names a caller saves: every short name, and the examples.
Names == (SeqsUpTo(NameAlphabet, MaxNameLen) \ {<<>>}) \cup ExampleNames

\* Slug values an instance may carry into save().
GivenSlugs == {<<>>, <<"h">>}

NoSave == [pk |-> NULL, name |-> <<>>, slug |-> <<>>, was |-> <<>>,
           result |-> "none", row |-> NULL]
NoJoin == [channel |-> NULL, user |-> "", result |-> "none"]

\* A wrong save: a slug the caller set is kept.
SlugKeepGiven(name, slug) == IF slug # <<>> THEN slug ELSE Slugify(name)

\* self.slug = slugify(self.name)
SlugToPersist(name, slug) == Slugify(name)

\* A wrong constraint: only the name is unique.
ChannelConflictNameOnly(others, name, slug) == \E c \in others : c.name = name

\* name = CharField(unique=True), slug = SlugField(unique=True)
ChannelConflict(others, name, slug) ==
    \E c \in others : c.name = name \/ c.slug = slug

\* Channel.save() of an instance with key pk (NULL: not yet stored), the given
\* name and the given slug.
SaveChannel(pk, name, slug) ==
    /\ IF pk = NULL THEN FreePks(channels, ChannelPks) # {}
                    ELSE \E c \in channels : c.pk = pk
    /\ LET persisted == SlugToPersist(name, slug)
           others == {c \in channels : c.pk # pk}
           row == IF pk = NULL THEN NewPk(channels, ChannelPks) ELSE pk
           was == IF pk = NULL THEN <<>> ELSE (CHOOSE c \in channels : c.pk = pk).name
           attempt == [pk |-> pk, name |-> name, slug |-> slug, was |-> was,
                       result |-> Saved, row |-> row]
       IN  IF ChannelConflict(others, name, persisted)
           THEN /\ channels' = channels
                /\ lastSave' = [attempt EXCEPT !.result = IntegrityError, !.row = NULL]
           ELSE /\ channels' = others \cup {[pk |-> row, name |-> name, slug |-> persisted]}
                /\ lastSave' = attempt
    /\ lastJoin' = NoJoin
    /\ UNCHANGED <<memberships, quizVars, assignVars, scheduleVars, removed>>

\* channel = ForeignKey(Channel, related_name="memberships", on_delete=models.CASCADE)
DeleteChannel(pk) ==
    /\ \E c \in channels : c.pk = pk
    /\ channels' = {c \in channels : c.pk # pk}
    /\ memberships' = {m \in memberships : m.channel # pk}
    /\ lastSave' = NoSave
    /\ lastJoin' = NoJoin
    /\ UNCHANGED <<quizVars, assignVars, scheduleVars, removed>>

\* A wrong constraint: none on the pair.
MemberUnconstrained(channel, user) == FALSE

\* unique_together = ("channel", "user")
MemberConflict(channel, user) ==
    \E m \in memberships : m.channel = channel /\ m.user = user

\* ChannelMember.objects.create(channel=channel, user=user)
JoinChannel(channel, user) ==
    /\ \E c \in channels : c.pk = channel
    /\ IF MemberConflict(channel, user)
       THEN /\ memberships' = memberships
            /\ lastJoin' = [channel |-> channel, user |-> user, result |-> IntegrityError]
       ELSE /\ FreePks(memberships, MemberPks) # {}
            /\ memberships' = memberships \cup {[pk |-> NewPk(memberships, MemberPks),
                                                 channel |-> channel, user |-> user]}
            /\ lastJoin' = [channel |-> channel, user |-> user, result |-> Saved]
    /\ lastSave' = NoSave
    /\ UNCHANGED <<channels, quizVars, assignVars, scheduleVars, removed>>

LeaveChannel(pk) ==
    /\ \E m \in memberships : m.pk = pk
    /\ memberships' = {m \in memberships : m.pk # pk}
    /\ lastJoin' = NoJoin
    /\ lastSave' = NoSave
    /\ UNCHANGED <<channels, quizVars, assignVars, scheduleVars, removed>>

----------------------------------------------------------------------------
(* MonthlySchedule *)

MaxMonth == 3
MaxSchedules == 2

Months == 1..MaxMonth
SchedulePks == 1..MaxSchedules
Years == {2025, 2026}

NoSchedule == [pk |-> NULL, month |-> NULL, year |-> NULL, user |-> "",
               result |-> "none"]

\* year = IntegerField(default=get_current_year): the clock's year when none is given.
YearToPersist(year, now) == IF year = NULL THEN now ELSE year

\* A wrong constraint: the month is unique per user.
ScheduleConflictPerUser(others, month, user) ==
    \E o \in others : o.month = month /\ o.user = user

\* month = IntegerField(unique=True)
ScheduleConflict(others, month, user) == \E o \in others : o.month = month

\* MonthlySchedule.save() of an instance with key pk (NULL: not yet stored); now is
\* the year datetime.now() gives.
SaveMonthlySchedule(pk, month, year, user, now) ==
    /\ IF pk = NULL THEN FreePks(schedules, SchedulePks) # {}
                    ELSE \E r \in schedules : r.pk = pk
    /\ LET others == {r \in schedules : r.pk # pk}
           row == IF pk = NULL THEN NewPk(schedules, SchedulePks) ELSE pk
           stored == YearToPersist(year, now)
           attempt == [pk |-> pk, month |-> month, year |-> stored, user |-> user,
                       result |-> Saved]
       IN  IF ScheduleConflict(others, month, user)
           THEN /\ schedules' = schedules
                /\ lastSchedule' = [attempt EXCEPT !.result = IntegrityError]
           ELSE /\ schedules' = others \cup {[pk |-> row, month |-> month,
                                              year |-> stored, user |-> user]}
                /\ lastSchedule' = attempt
    /\ UNCHANGED <<quizVars, assignVars, channelVars, removed>>

DeleteMonthlySchedule(pk) ==
    /\ \E r \in schedules : r.pk = pk
    /\ schedules' = {r \in schedules : r.pk # pk}
    /\ lastSchedule' = NoSchedule
    /\ UNCHANGED <<quizVars, assignVars, channelVars, removed>>

----------------------------------------------------------------------------
(* Specifications.  The tables of one group are never read or written by the *)
(* operations of another, so each group is explored on its own.              *)

Init ==
    /\ quizzes = {}
    /\ questions = {}
    /\ answers = {}
    /\ studentAnswers = {}
    /\ takenQuizzes = {}
    /\ calls = <<>>
    /\ assignments = {}
    /\ submissions = {}
    /\ channels = {}
    /\ memberships = {}
    /\ schedules = {}
    /\ removed = {}
    /\ lastSave = NoSave
    /\ lastJoin = NoJoin
    /\ lastSchedule = NoSchedule

QuizTableWrites ==
    \/ \E quiz \in QuizPks : CreateQuiz(quiz)
    \/ \E quiz \in QuizPks : DeleteQuiz(quiz)
    \/ \E quiz \in QuizPks, text \in Texts : CreateQuestion(quiz, text)
    \/ \E pk \in Pks : DeleteQuestion(pk)
    \/ \E question \in Pks, is_correct \in BOOLEAN : CreateAnswer(question, is_correct)
    \/ \E pk \in Pks : DeleteAnswer(pk)
    \/ \E student \in Students, answer \in Pks \cup {NULL} :
         CreateStudentAnswer(student, answer)
    \/ \E pk \in Pks : DeleteStudentAnswer(pk)

\* Quizzes and what students answered, with the unanswered-questions query.
NextQuery ==
    \/ QuizTableWrites
    \/ \E student \in Students, quiz \in QuizPks : GetUnansweredQuestions(student, quiz)

SpecQuery == Init /\ [][NextQuery]_vars

\* Quizzes with the attempts students made at them.
NextQuiz ==
    \/ QuizTableWrites
    \/ \E student \in Students, quiz \in QuizPks : CreateTakenQuiz(student, quiz)
    \/ \E pk \in Pks : DeleteTakenQuiz(pk)

SpecQuiz == Init /\ [][NextQuiz]_vars

NextAssign ==
    \/ \E assignment \in AssignmentPks : CreateAssignment(assignment)
    \/ \E assignment \in AssignmentPks : DeleteAssignment(assignment)
    \/ \E student \in Students, assignment \in AssignmentPks \cup {NULL} :
         CreateSubmission(student, assignment)
    \/ \E pk \in SubmissionPks : DeleteSubmission(pk)

SpecAssign == Init /\ [][NextAssign]_vars

NextChannel ==
    \/ \E pk \in ChannelPks \cup {NULL}, name \in Names, slug \in GivenSlugs :
         SaveChannel(pk, name, slug)
    \/ \E pk \in ChannelPks : DeleteChannel(pk)

SpecChannel == Init /\ [][NextChannel]_vars

\* Channels under two fixed names, with their members.
NextMember ==
    \/ \E pk \in ChannelPks \cup {NULL}, name \in {MathHelpBang, <<"H">>} :
         SaveChannel(pk, name, <<>>)
    \/ \E pk \in ChannelPks : DeleteChannel(pk)
    \/ \E channel \in ChannelPks, user \in Users : JoinChannel(channel, user)
    \/ \E pk \in MemberPks : LeaveChannel(pk)

SpecMember == Init /\ [][NextMember]_vars

NextSchedule ==
    \/ \E pk \in SchedulePks \cup {NULL}, month \in Months, year \in Years \cup {NULL},
          user \in Users, now \in Years :
         SaveMonthlySchedule(pk, month, year, user, now)
    \/ \E pk \in SchedulePks : DeleteMonthlySchedule(pk)

SpecSchedule == Init /\ [][NextSchedule]_vars

Next ==
    \/ NextQuery
    \/ NextQuiz
    \/ NextAssign
    \/ NextChannel
    \/ NextMember
    \/ NextSchedule

Spec == Init /\ [][Next]_vars

----------------------------------------------------------------------------
(* Properties *)

Range(f) == {f[i] : i \in DOMAIN f}

\* The student has a StudentAnswer whose Answer belongs to the question.
HasAnswered(student, question) ==
    \E sa \in studentAnswers :
        /\ sa.student = student
        /\ sa.answer # NULL
        /\ \E a \in answers : a.pk = sa.answer /\ a.question = question.pk

\* C1: every result of get_unanswered_questions(S, Q) holds only questions of Q, each
\* once, and a question of Q is missing from it exactly when S has a StudentAnswer
\* whose Answer belongs to that question.
C1_UnansweredExactly ==
    \A i \in 1..Len(calls) :
        LET c == calls[i]
        IN  /\ Range(c.rows) \subseteq {q \in questions : q.quiz = c.quiz}
            /\ Cardinality(Range(c.rows)) = Len(c.rows)
            /\ \A q \in questions :
                 q.quiz = c.quiz => (q \notin Range(c.rows) <=> HasAnswered(c.student, q))

\* A call left out a question the student answered incorrectly, while the other
\* student did not answer it.
C1_Witness ==
    \E i \in 1..Len(calls) : \E q \in questions : \E a \in answers :
        /\ q.quiz = calls[i].quiz
        /\ q \notin Range(calls[i].rows)
        /\ a.question = q.pk /\ ~a.is_correct
        /\ \E sa \in studentAnswers : sa.student = calls[i].student /\ sa.answer = a.pk
        /\ \A o \in Students \ {calls[i].student} : ~HasAnswered(o, q)

\* C2: every result of get_unanswered_questions is ascending by question text.
C2_SortedByText ==
    \A n \in 1..Len(calls) :
        LET rows == calls[n].rows
        IN  \A i \in 1..Len(rows), j \in 1..Len(rows) :
              i < j => ~TextLess(rows[j].text, rows[i].text)

\* A call returned two questions of different text in the order opposite to their keys.
C2_Witness ==
    \E n \in 1..Len(calls) :
        LET rows == calls[n].rows
        IN  /\ Len(rows) >= 2
            /\ rows[1].pk > rows[2].pk
            /\ TextLess(rows[1].text, rows[2].text)

\* C3: two calls of get_unanswered_questions(S, Q) with no write between them return
\* the same sequence.
C3_SameSequenceTwice ==
    Len(calls) = 2 => calls[1].rows = calls[2].rows

\* C4, as claimed: deleting an Assignment keeps every submission, the ones that
\* referenced it with a null assignment.
C4_SubmissionsSurvive ==
    [][\A a \in AssignmentPks :
         (a \in assignments /\ a \notin assignments') =>
            \A s \in submissions :
               \E t \in submissions' :
                  /\ t.pk = s.pk
                  /\ t.student = s.student
                  /\ t.assignment = IF s.assignment = a THEN NULL ELSE s.assignment]_vars

\* C4, amended: deleting an Assignment removes exactly the submissions that reference
\* it; every other submission is kept as it was.
C4_SubmissionsCascade ==
    [][\A a \in AssignmentPks :
         (a \in assignments /\ a \notin assignments') =>
            submissions' = {s \in submissions : s.assignment # a}]_vars

\* An assignment was deleted with a submission of its own, and a submission without
\* that assignment is still stored.
C4_Witness ==
    /\ \E r \in removed : r.table = "Assignment"
    /\ \E r \in removed : r.table = "AssignmentSubmission"
    /\ submissions # {}

QuizOfAnswer(a) == {q.quiz : q \in {q \in questions : q.pk = a.question}}

\* C5: deleting a Quiz leaves no Question, Answer or TakenQuiz of that quiz, and
\* keeps the rows of the other quizzes as they were.
C5_QuizDeleteCascades ==
    [][\A quiz \in QuizPks :
         (quiz \in quizzes /\ quiz \notin quizzes') =>
            /\ quizzes' = quizzes \ {quiz}
            /\ \A q \in questions' : q.quiz # quiz
            /\ \A a \in answers' : \E q \in questions' : q.pk = a.question
            /\ \A t \in takenQuizzes' : t.quiz # quiz
            /\ questions' = {q \in questions : q.quiz # quiz}
            /\ answers' = {a \in answers : quiz \notin QuizOfAnswer(a)}
            /\ takenQuizzes' = {t \in takenQuizzes : t.quiz # quiz}
            /\ \A sa \in studentAnswers :
                 (sa.answer = NULL \/ \E a \in answers' : a.pk = sa.answer)
                    => sa \in studentAnswers']_vars

\* A quiz was deleted together with a question, an answer and an attempt, while
\* another quiz is still stored.
C5_Witness ==
    /\ \E r \in removed : r.table = "Quiz"
    /\ \E r \in removed : r.table = "Question"
    /\ \E r \in removed : r.table = "Answer"
    /\ \E r \in removed : r.table = "TakenQuiz"
    /\ quizzes # {}

\* C6: every stored channel's slug is slugify of its name, and after a successful save
\* the saved row carries the saved name and its slugify, whatever slug was given.
C6_SlugFromName ==
    /\ \A c \in channels : c.slug = Slugify(c.name)
    /\ lastSave.result = Saved =>
         \E c \in channels :
            /\ c.pk = lastSave.row
            /\ c.name = lastSave.name
            /\ c.slug = Slugify(lastSave.name)

\* A stored channel was saved again under the same name with another slug set on it.
C6_Witness ==
    /\ lastSave.result = Saved
    /\ lastSave.pk # NULL
    /\ lastSave.was = lastSave.name
    /\ lastSave.slug # <<>>
    /\ lastSave.slug # Slugify(lastSave.name)

\* C7, as claimed: a save that renames a stored channel changes its slug.
C7_RenameChangesSlug ==
    [][\A c \in channels : \A d \in channels' :
         (c.pk = d.pk /\ c.name # d.name) => d.slug # c.slug]_vars

MathHelpSlug == <<"m", "a", "t", "h", "-", "h", "e", "l", "p">>

\* C7, amended: a save that renames a stored channel sets its slug to slugify of the
\* new name, which differs from the old slug only when the two names slugify
\* differently; renamed from "Math Help!" to "Math Help?" it keeps the slug math-help.
C7_RenameReslugs ==
    [][\A c \in channels : \A d \in channels' :
         (c.pk = d.pk /\ c.name # d.name) =>
            /\ d.slug = Slugify(d.name)
            /\ d.slug # c.slug <=> Slugify(d.name) # Slugify(c.name)
            /\ (c.name = MathHelpBang /\ d.name = MathHelpQuery) =>
                  (c.slug = MathHelpSlug /\ d.slug = MathHelpSlug)]_vars

\* The channel "Math Help!" was renamed to "Math Help?" and saved.
C7_Witness ==
    /\ lastSave.result = Saved
    /\ lastSave.was = MathHelpBang
    /\ lastSave.name = MathHelpQuery
    /\ \E c \in channels : c.pk = lastSave.row /\ c.slug = MathHelpSlug

\* C8: no two MonthlySchedule rows share a month, and a save whose month is that of
\* another row is rejected with a uniqueness violation and changes no row.
C8_MonthUnique ==
    /\ [](\A r \in schedules : \A o \in schedules : r.month = o.month => r = o)
    /\ [][lastSchedule' # NoSchedule =>
            ((\E r \in schedules : r.pk # lastSchedule'.pk /\ r.month = lastSchedule'.month)
                => (lastSchedule'.result = IntegrityError /\ schedules' = schedules))]_vars

\* A second schedule for month 3 was rejected although it was another user's.
C8_Witness ==
    /\ lastSchedule.result = IntegrityError
    /\ lastSchedule.pk = NULL
    /\ lastSchedule.month = 3
    /\ \E r \in schedules : r.month = lastSchedule.month /\ r.user # lastSchedule.user

\* C9: there is at most one ChannelMember row per (channel, user); a join by a user
\* who is a member already is rejected and changes no row, and any other join adds
\* the membership.
C9_OneMembershipPerPair ==
    /\ [](\A m \in memberships : \A o \in memberships :
            (m.channel = o.channel /\ m.user = o.user) => m = o)
    /\ [][lastJoin' # NoJoin =>
            IF \E m \in memberships :
                  m.channel = lastJoin'.channel /\ m.user = lastJoin'.user
            THEN lastJoin'.result = IntegrityError /\ memberships' = memberships
            ELSE /\ lastJoin'.result = Saved
                 /\ \E m \in memberships' \ memberships :
                      /\ m.channel = lastJoin'.channel /\ m.user = lastJoin'.user
                      /\ memberships' = memberships \cup {m}]_vars

\* A repeated join was rejected, while the user is a member of two channels and the
\* channel has two members.
C9_Witness ==
    /\ lastJoin.result = IntegrityError
    /\ \E m \in memberships : \E o \in memberships :
         m.user = lastJoin.user /\ o.user = lastJoin.user /\ m.channel # o.channel
    /\ \E m \in memberships : \E o \in memberships :
         m.channel = lastJoin.channel /\ o.channel = lastJoin.channel /\ m.user # o.user

\* C10: no two channels share a name or a slug, and a save under a name no other
\* channel has, whose slug another channel has, is rejected with a uniqueness
\* violation and changes no row.
C10_SlugUnique ==
    /\ [](\A c \in channels : \A d \in channels :
            (c.name = d.name \/ c.slug = d.slug) => c = d)
    /\ [][lastSave' # NoSave =>
            LET others == {c \in channels : c.pk # lastSave'.pk}
            IN  ((\A c \in others : c.name # lastSave'.name)
                    /\ (\E c \in others : c.slug = Slugify(lastSave'.name)))
                => (lastSave'.result = IntegrityError /\ channels' = channels)]_vars

\* The rename of a stored channel was rejected: no other channel has the new name,
\* another one has its slug.
C10_Witness ==
    /\ lastSave.result = IntegrityError
    /\ lastSave.pk # NULL
    /\ \A c \in channels : c.name # lastSave.name
    /\ \E c \in channels : c.pk # lastSave.pk /\ c.slug = Slugify(lastSave.name)

====
